---------------------------- MODULE Spec2Model ----------------------------
(***************************************************************************)
(* Model of NpmDepTreeAnalyzer (npm-dep-tree-analyzer, src/index.ts).      *)
(*                                                                         *)
(* The analyzer resolves the transitive dependencies of npm packages       *)
(* against a registry (getPackageInfo, buildDependencyTree), flattens the  *)
(* logical tree into a hoisted tree (convertToHoistedTree) and offers a    *)
(* single-package and a multi-package entry point (analyze).               *)
(*                                                                         *)
(* Strings are modelled as strings: cache keys are "name@descriptor",      *)
(* node keys "name@version", parent paths "a@1 > b@2".  A promise of       *)
(* buildDependencyTree is a task, identified by the sequence of dependency *)
(* names that leads to it from the root of the build.                      *)
(*                                                                         *)
(* Scheduling follows the JavaScript event loop: a continuation that needs *)
(* no I/O (a cache hit, a resolved Promise.all) runs before any registry   *)
(* response is delivered, and convertToHoistedTree runs without            *)
(* interruption.  Promises of a rejected call keep running; the client     *)
(* issues its next call once they have settled.                            *)
(***************************************************************************)
EXTENDS Naturals, Sequences, FiniteSets, TLC

(***************************************************************************)
(* Bounds of the model.                                                    *)
(***************************************************************************)
\* longest chain of nested buildDependencyTree calls that is expanded
MaxDepth == 3
\* number of analyze calls issued on the analyzer
MaxCalls == 2

(***************************************************************************)
(* Small helpers.                                                          *)
(***************************************************************************)
\* JavaScript null / undefined where a string is expected (falsy)
Null == ""
\* HoistedDependency.parent === undefined
NoParent == "<undefined>"
\* a Map or object without entries
EmptyMap == <<>>

RECURSIVE SeqToSet(_)
SeqToSet(s) == IF s = <<>> THEN {} ELSE {Head(s)} \cup SeqToSet(Tail(s))

\* m.set(k, v) on a Map held as a function
MapSet(m, k, v) == [x \in DOMAIN m \cup {k} |-> IF x = k THEN v ELSE m[x]]

(***************************************************************************)
(* The semver library, on the version and range strings of the registry.   *)
(***************************************************************************)
\* the concrete versions, parsed
VersionTable ==
    ("0.0.0" :> <<0, 0, 0>>) @@ ("1.0.0" :> <<1, 0, 0>>) @@
    ("1.1.0" :> <<1, 1, 0>>) @@ ("2.0.0" :> <<2, 0, 0>>) @@
    ("3.0.0" :> <<3, 0, 0>>) @@
    ("17.0.2" :> <<17, 0, 2>>) @@ ("18.2.0" :> <<18, 2, 0>>)

\* the valid ranges, parsed: lo <= v < hi
RangeTable ==
    ("0.0.0" :> [lo |-> <<0, 0, 0>>, hi |-> <<0, 0, 1>>]) @@
    ("1.0.0" :> [lo |-> <<1, 0, 0>>, hi |-> <<1, 0, 1>>]) @@
    ("1.1.0" :> [lo |-> <<1, 1, 0>>, hi |-> <<1, 1, 1>>]) @@
    ("2.0.0" :> [lo |-> <<2, 0, 0>>, hi |-> <<2, 0, 1>>]) @@
    ("3.0.0" :> [lo |-> <<3, 0, 0>>, hi |-> <<3, 0, 1>>]) @@
    ("17.0.2" :> [lo |-> <<17, 0, 2>>, hi |-> <<17, 0, 3>>]) @@
    ("18.2.0" :> [lo |-> <<18, 2, 0>>, hi |-> <<18, 2, 1>>]) @@
    ("^1.0.0" :> [lo |-> <<1, 0, 0>>, hi |-> <<2, 0, 0>>]) @@
    ("^2.0.0" :> [lo |-> <<2, 0, 0>>, hi |-> <<3, 0, 0>>]) @@
    ("^18.0.0" :> [lo |-> <<18, 0, 0>>, hi |-> <<19, 0, 0>>]) @@
    ("*" :> [lo |-> <<0, 0, 0>>, hi |-> <<99, 0, 0>>])

VLess(a, b) ==
    \/ a[1] < b[1]
    \/ a[1] = b[1] /\ a[2] < b[2]
    \/ a[1] = b[1] /\ a[2] = b[2] /\ a[3] < b[3]

\* semver.valid(v): the version, or null
valid(v) == IF v \in DOMAIN VersionTable THEN v ELSE Null

\* semver.validRange(r): the range, or null
validRange(r) == IF r \in DOMAIN RangeTable THEN r ELSE Null

\* semver.satisfies(version, range)
satisfies(v, r) ==
    /\ v \in DOMAIN VersionTable
    /\ r \in DOMAIN RangeTable
    /\ ~VLess(VersionTable[v], RangeTable[r].lo)
    /\ VLess(VersionTable[v], RangeTable[r].hi)

\* semver.maxSatisfying(versions, range): the greatest satisfying one, or null
maxSatisfying(vs, r) ==
    LET ok == {v \in vs : satisfies(v, r)}
    IN  IF ok = {} THEN Null
        ELSE CHOOSE v \in ok :
                 \A w \in ok : w = v \/ VLess(VersionTable[w], VersionTable[v])


(***************************************************************************)
(* The registry: one metadata document per package name.  `dependencies`   *)
(* keeps the key order of the JSON object as a sequence of                 *)
(* <<name, descriptor>> pairs.                                             *)
(***************************************************************************)
NoPeers == EmptyMap

VersionDoc(n, deps, devDeps, peers) ==
    [name |-> n, dependencies |-> deps, devDependencies |-> devDeps,
     peerDependencies |-> peers]

Leaf(n) == VersionDoc(n, <<>>, <<>>, NoPeers)

Registry ==
    \* app -> b, c -> d: two cousins ask for d@^1.0.0
    ("app" :> [distTags |-> ("latest" :> "1.0.0"),
               versions |-> ("1.0.0" :> VersionDoc("app",
                   << <<"b", "^1.0.0">>, <<"c", "^1.0.0">> >>, <<>>, NoPeers))]) @@
    ("b" :> [distTags |-> ("latest" :> "1.0.0"),
             versions |-> ("1.0.0" :> VersionDoc("b",
                   << <<"d", "^1.0.0">> >>, << <<"ghost", "1.0.0">> >>, NoPeers))]) @@
    ("c" :> [distTags |-> ("latest" :> "1.0.0"),
             versions |-> ("1.0.0" :> VersionDoc("c",
                   << <<"d", "^1.0.0">> >>, <<>>, NoPeers))]) @@
    ("d" :> [distTags |-> ("latest" :> "1.1.0"),
             versions |-> ("1.0.0" :> Leaf("d")) @@ ("1.1.0" :> Leaf("d")) @@
                          ("2.0.0" :> Leaf("d"))]) @@
    \* e pins d@1.0.0 before b brings d@1.1.0: a version conflict
    ("e" :> [distTags |-> ("latest" :> "1.0.0"),
             versions |-> ("1.0.0" :> VersionDoc("e",
                   << <<"d", "1.0.0">>, <<"b", "^1.0.0">> >>, <<>>, NoPeers))]) @@
    \* x and y declare each other: a cycle
    ("x" :> [distTags |-> ("latest" :> "1.0.0"),
             versions |-> ("1.0.0" :> VersionDoc("x",
                   << <<"y", "1.0.0">> >>, <<>>, NoPeers))]) @@
    ("y" :> [distTags |-> ("latest" :> "1.0.0"),
             versions |-> ("1.0.0" :> VersionDoc("y",
                   << <<"x", "1.0.0">> >>, <<>>, NoPeers))]) @@
    \* p names itself as a peer; s reaches p twice
    ("p" :> [distTags |-> ("latest" :> "1.0.0"),
             versions |-> ("1.0.0" :> VersionDoc("p", <<>>, <<>>,
                   ("p" :> "^2.0.0")))]) @@
    ("r" :> [distTags |-> ("latest" :> "1.0.0"),
             versions |-> ("1.0.0" :> VersionDoc("r",
                   << <<"p", "1.0.0">> >>, <<>>, NoPeers))]) @@
    ("s" :> [distTags |-> ("latest" :> "1.0.0"),
             versions |-> ("1.0.0" :> VersionDoc("s",
                   << <<"p", "1.0.0">>, <<"r", "1.0.0">> >>, <<>>, NoPeers))]) @@
    \* scenario S7: A wants react@^18 as a peer, B depends on react@17.0.2
    ("A" :> [distTags |-> ("latest" :> "1.0.0"),
             versions |-> ("1.0.0" :> VersionDoc("A", <<>>, <<>>,
                   ("react" :> "^18.0.0")))]) @@
    ("B" :> [distTags |-> ("latest" :> "1.0.0"),
             versions |-> ("1.0.0" :> VersionDoc("B",
                   << <<"react", "17.0.2">> >>, <<>>, NoPeers))]) @@
    ("react" :> [distTags |-> ("latest" :> "18.2.0"),
                 versions |-> ("17.0.2" :> Leaf("react")) @@
                              ("18.2.0" :> Leaf("react"))]) @@
    \* t: tags that are also a version key, a valid range, or dangling
    ("t" :> [distTags |-> ("latest" :> "1.1.0") @@ ("1.0.0" :> "2.0.0") @@
                          ("^1.0.0" :> "1.0.0") @@ ("next" :> "3.0.0"),
             versions |-> ("1.0.0" :> Leaf("t")) @@ ("1.1.0" :> Leaf("t")) @@
                          ("2.0.0" :> Leaf("t"))]) @@
    \* g has a sibling pair of which one does not exist
    ("g" :> [distTags |-> ("latest" :> "1.0.0"),
             versions |-> ("1.0.0" :> VersionDoc("g",
                   << <<"ghost", "1.0.0">>, <<"d", "^1.0.0">> >>, <<>>, NoPeers))]) @@
    \* a scoped package
    ("@scope/pkg" :> [distTags |-> ("latest" :> "1.0.0"),
                      versions |-> ("1.0.0" :> Leaf("@scope/pkg"))])

\* names the registry answers with a body that is not JSON
Garbled == {"garbled"}

\* variant of FetchOutcomes: no timeout, and a registry that leaves the request
\* for a name it does not know unanswered
FetchOutcomesNoTimeout(name) ==
    IF name \in Garbled THEN {"badjson"}
    ELSE IF name \in DOMAIN Registry THEN {"ok"}
    ELSE {}

\* what one registry request for `name` can end in: a 2xx response with the
\* document, a non-2xx response, a body that does not parse, or an abort
\* (transport failure, AbortSignal.timeout)
FetchOutcomes(name) ==
    IF name \in Garbled THEN {"badjson", "abort"}
    ELSE IF name \in DOMAIN Registry THEN {"ok", "abort"}
    ELSE {"non2xx", "abort"}

\* line 63: the registry of an analyzer constructed without a configuration
defaultRegistry == "https://registry.npmjs.org"

\* lines 91-92: the URL handed to fetch is the template `${registry}/${name}`
requestUrl(name) == defaultRegistry \o "/" \o name

(***************************************************************************)
(* getPackageInfo, the part after the response arrived.                    *)
(***************************************************************************)
cacheKey(name, version) == name \o "@" \o version

\* property names every parsed JSON object inherits from Object.prototype;
\* their values are functions, hence truthy
ObjectPrototypeKeys == {"constructor"}

\* `obj[key]` is truthy, for an object whose own values are all truthy
truthyAt(obj, key) ==
    \/ key \in DOMAIN obj /\ obj[key] # Null
    \/ key \in ObjectPrototypeKeys

\* variant of matchVersion: the range is tried before the dist-tag
matchVersionRangeFirst(metadata, version) ==
    IF version \in DOMAIN metadata.versions \/ version \in ObjectPrototypeKeys
    THEN version
    ELSE IF validRange(version) # Null
    THEN maxSatisfying(DOMAIN metadata.versions, version)
    ELSE IF truthyAt(metadata.distTags, version)
    THEN metadata.distTags[version]
    ELSE Null

\* lines 105-116: exact version, then dist-tag, then highest in range
matchVersion(metadata, version) ==
    IF version \in DOMAIN metadata.versions \/ version \in ObjectPrototypeKeys
    THEN version
    ELSE IF truthyAt(metadata.distTags, version)
    THEN metadata.distTags[version]
    ELSE IF validRange(version) # Null
    THEN maxSatisfying(DOMAIN metadata.versions, version)
    ELSE Null

PackageNotFoundError(name, version, cause) ==
    [kind |-> "PackageNotFoundError", name |-> name, version |-> version,
     cause |-> cause]

NoError == [kind |-> "none", name |-> "", version |-> "", cause |-> ""]

NoInfo == [name |-> "", version |-> "", dependencies |-> <<>>,
           devDependencies |-> <<>>, peerDependencies |-> NoPeers]

\* lines 98-143: what the call settles with for a given fetch outcome.
\* Every throw inside the try block is wrapped by the catch of line 137.
packageInfoOf(name, version, outcome) ==
    IF outcome = "abort"
    THEN [ok |-> FALSE, info |-> NoInfo,
          error |-> PackageNotFoundError(name, version, "AbortError")]
    ELSE IF outcome = "non2xx"
    THEN [ok |-> FALSE, info |-> NoInfo,
          error |-> PackageNotFoundError(name, version, "PackageNotFoundError")]
    ELSE IF outcome = "badjson"
    THEN [ok |-> FALSE, info |-> NoInfo,
          error |-> PackageNotFoundError(name, version, "SyntaxError")]
    ELSE LET metadata == Registry[name]
             matchedVersion == matchVersion(metadata, version)
         IN  IF matchedVersion = Null
             THEN [ok |-> FALSE, info |-> NoInfo,
                   error |-> PackageNotFoundError(name, version,
                        "PackageNotFoundError: No matching version found")]
             ELSE IF matchedVersion \in ObjectPrototypeKeys \ DOMAIN metadata.versions
             THEN \* versions[matchedVersion] is a function of Object.prototype:
                  \* its name is the function's, the other fields are undefined
                  [ok |-> TRUE,
                   info |-> [name |-> "Object", version |-> matchedVersion,
                             dependencies |-> <<>>, devDependencies |-> <<>>,
                             peerDependencies |-> NoPeers],
                   error |-> NoError]
             ELSE IF matchedVersion \notin DOMAIN metadata.versions
             THEN [ok |-> FALSE, info |-> NoInfo,
                   error |-> PackageNotFoundError(name, version, "TypeError")]
             ELSE [ok |-> TRUE,
                   info |-> [name |-> metadata.versions[matchedVersion].name,
                             version |-> matchedVersion,
                             dependencies |->
                                 metadata.versions[matchedVersion].dependencies,
                             devDependencies |->
                                 metadata.versions[matchedVersion].devDependencies,
                             peerDependencies |->
                                 metadata.versions[matchedVersion].peerDependencies],
                   error |-> NoError]

(***************************************************************************)
(* The state of one analyzer and of the analyze call running on it.        *)
(***************************************************************************)
VARIABLES
    packageCache,   \* this.packageCache: cache key -> PackageInfo
    fetchCount,     \* registry requests issued so far, per cache key
    callFetches,    \* registry requests issued since the current call began
    tasks,          \* the buildDependencyTree promises of the current build
    flatDeps,       \* the flatDeps map of the current analyzeSingle
    phase,          \* where the current analyze call is
    call,           \* the current (or last) analyze call and how it settled
    individual,     \* analyzeMultiple: the `individual` map
    individualOrder,\* analyzeMultiple: insertion order of `individual`
    combinedFlat,   \* analyzeMultiple: combinedFlatDeps
    tree,           \* the DependencyNode handed to convertToHoistedTree
    hoistedTree,    \* convertToHoistedTree: the tree under construction
    work,           \* convertToHoistedTree: pending processNode calls
    firstResult,    \* history: result of the first successful analyze per request
    callsLeft       \* analyze calls the client may still issue

vars == <<packageCache, fetchCount, callFetches, tasks, flatDeps, phase, call,
          individual, individualOrder, combinedFlat, tree, hoistedTree, work,
          firstResult, callsLeft>>

EmptyHoistedTree == [root |-> EmptyMap, nested |-> EmptyMap]

NoCall == [kind |-> "none", name |-> "", version |-> "", packages |-> <<>>,
           idx |-> 0, status |-> "none", error |-> NoError, repeat |-> FALSE]

\* a request of the multi-package form
Pkg(n, v) == [name |-> n, version |-> v]

(***************************************************************************)
(* buildDependencyTree.                                                    *)
(***************************************************************************)
nodeKeyOf(name, version) == name \o "@" \o version

\* lines 162-164
currentPathOf(parentPath, name, version) ==
    IF parentPath # ""
    THEN parentPath \o " > " \o nodeKeyOf(name, version)
    ELSE nodeKeyOf(name, version)

\* variant of registerFlat: only the first parent path of a key is recorded
registerFlatFirstOnly(flat, name, version, parentPath) ==
    LET key == nodeKeyOf(name, version)
        by  == IF parentPath # "" THEN parentPath ELSE "root"
    IN  IF key \notin DOMAIN flat
        THEN MapSet(flat, key,
                    [name |-> name, version |-> version, requiredBy |-> {by}])
        ELSE flat

\* variant of registerFlat: a registration replaces the set it finds
registerFlatLastOnly(flat, name, version, parentPath) ==
    LET key == nodeKeyOf(name, version)
        by  == IF parentPath # "" THEN parentPath ELSE "root"
    IN  MapSet(flat, key, [name |-> name, version |-> version, requiredBy |-> {by}])

\* lines 166-176
registerFlat(flat, name, version, parentPath) ==
    LET key == nodeKeyOf(name, version)
        by  == IF parentPath # "" THEN parentPath ELSE "root"
    IN  IF key \notin DOMAIN flat
        THEN MapSet(flat, key,
                    [name |-> name, version |-> version, requiredBy |-> {by}])
        ELSE [flat EXCEPT ![key].requiredBy = @ \cup {by}]

\* variant of needsFetch: the cache is never consulted
needsFetchAlways(cache, name, version) == TRUE

\* lines 83-96: a call of getPackageInfo up to its first suspension: it
\* returns the cached value, or issues the registry request
needsFetch(cache, name, version) == cacheKey(name, version) \notin DOMAIN cache

\* lines 146-152: a new buildDependencyTree promise, suspended in getPackageInfo
spawn(cache, name, version, parentPath) ==
    [name |-> name, version |-> version, parentPath |-> parentPath,
     pc |-> IF needsFetch(cache, name, version) THEN "fetching" ELSE "cached",
     info |-> NoInfo,
     \* the names of the dependencies in the order their promises resolved
     arrivals |-> <<>>]

\* variant of expandedEntries: the dev-dependencies are expanded as well
expandedEntriesWithDev(info) == info.dependencies \o info.devDependencies

\* lines 178-180: the entries that become child promises are those of
\* packageInfo.dependencies, and no others
expandedEntries(info) == info.dependencies

childPaths(p, info) ==
    {Append(p, expandedEntries(info)[i][1]) : i \in 1..Len(expandedEntries(info))}

childDescriptor(info, depName) ==
    LET i == CHOOSE j \in 1..Len(expandedEntries(info)) :
                 expandedEntries(info)[j][1] = depName
    IN  expandedEntries(info)[i][2]

\* cache keys for which expanding `info` issues a registry request
childFetches(cache, info) ==
    {cacheKey(expandedEntries(info)[i][1], expandedEntries(info)[i][2]) :
        i \in {j \in 1..Len(expandedEntries(info)) :
                 needsFetch(cache, expandedEntries(info)[j][1],
                            expandedEntries(info)[j][2])}}

\* lines 153-192: buildDependencyTree from the moment packageInfo is known
\* until it suspends in Promise.all
expand(p, info, cache) ==
    LET t == tasks[p]
        currentPath == currentPathOf(t.parentPath, t.name, info.version)
        kids == childPaths(p, info)
    IN  /\ expandedEntries(info) = <<>> \/ Len(p) < MaxDepth
        /\ tasks' = [q \in DOMAIN tasks \cup kids |->
                       IF q = p THEN [t EXCEPT !.pc = "waiting", !.info = info]
                       ELSE IF q \in kids
                       THEN spawn(cache, q[Len(q)],
                                  childDescriptor(info, q[Len(q)]), currentPath)
                       ELSE tasks[q]]
        /\ flatDeps' = registerFlat(flatDeps, t.name, info.version, t.parentPath)
        /\ fetchCount' = [k \in DOMAIN fetchCount \cup childFetches(cache, info) |->
                            IF k \in childFetches(cache, info)
                            THEN (IF k \in DOMAIN fetchCount THEN fetchCount[k] ELSE 0) + 1
                            ELSE fetchCount[k]]
        /\ callFetches' = callFetches + Cardinality(childFetches(cache, info))

IsPrefix(a, b) == Len(a) <= Len(b) /\ SubSeq(b, 1, Len(a)) = a

\* a promise that still has a continuation to run without waiting for I/O
completable(p) ==
    /\ tasks[p].pc = "waiting"
    /\ \A q \in childPaths(p, tasks[p].info) : q \in DOMAIN tasks /\ tasks[q].pc = "done"

microtaskPending ==
    \E p \in DOMAIN tasks : tasks[p].pc = "cached" \/ completable(p)

quiescent == \A p \in DOMAIN tasks : tasks[p].pc \in {"done", "failed"}

\* variant of dependencyOrder: a child is inserted when its promise resolves
dependencyOrderByArrival(declared, arrivals) == arrivals

\* lines 178-199: Promise.all yields the results in the order of the promise
\* array, which is the order of Object.entries(packageInfo.dependencies), and
\* forEach inserts them into node.dependencies in that order
dependencyOrder(declared, arrivals) ==
    [i \in 1..Len(declared) |-> declared[i][1]]

\* the logical tree rooted at the finished root promise
treeOf(ts) ==
    [p \in DOMAIN ts |->
        [name |-> ts[p].name,
         version |-> ts[p].info.version,
         dependencies |-> dependencyOrder(expandedEntries(ts[p].info),
                                          ts[p].arrivals),
         peerDependencies |-> ts[p].info.peerDependencies]]

\* lines 471-476 and 146-152: analyzeSingle starts the root promise
startBuild(name, version, fetchesSoFar) ==
    /\ tasks' = (<<>> :> spawn(packageCache, name, version, ""))
    /\ flatDeps' = EmptyMap
    /\ fetchCount' =
         IF needsFetch(packageCache, name, version)
         THEN MapSet(fetchCount, cacheKey(name, version),
                     (IF cacheKey(name, version) \in DOMAIN fetchCount
                      THEN fetchCount[cacheKey(name, version)] ELSE 0) + 1)
         ELSE fetchCount
    /\ callFetches' = fetchesSoFar
                      + (IF needsFetch(packageCache, name, version) THEN 1 ELSE 0)

(***************************************************************************)
(* convertToHoistedTree.                                                   *)
(***************************************************************************)
\* variant of convertToHoistedDep: the parent argument is not recorded
convertToHoistedDepNoParent(tr, path, parent) ==
    [name |-> tr[path].name,
     version |-> tr[path].version,
     dependencies |->
        [k \in SeqToSet(tr[path].dependencies) |-> tr[Append(path, k)].version],
     peerDependencies |-> tr[path].peerDependencies,
     parent |-> NoParent]

\* lines 325-339
convertToHoistedDep(tr, path, parent) ==
    [name |-> tr[path].name,
     version |-> tr[path].version,
     dependencies |->
        [k \in SeqToSet(tr[path].dependencies) |-> tr[Append(path, k)].version],
     peerDependencies |-> tr[path].peerDependencies,
     parent |-> parent]

\* lines 342-383
hasVersionConflict(dep1, dep2) ==
    IF dep1.version = dep2.version THEN FALSE
    ELSE LET range1 == IF validRange(dep1.version) # Null
                       THEN validRange(dep1.version) ELSE dep1.version
             range2 == IF validRange(dep2.version) # Null
                       THEN validRange(dep2.version) ELSE dep2.version
             version1 == valid(dep1.version)
             version2 == valid(dep2.version)
         IN  IF version1 # Null /\ version2 # Null THEN version1 # version2
             ELSE IF version1 # Null THEN ~satisfies(version1, range2)
             ELSE IF version2 # Null THEN ~satisfies(version2, range1)
             ELSE TRUE

\* variant of canBeHoisted: the peers declared by root packages are not checked
canBeHoistedOwnPeersOnly(ht, dep) ==
    \A peerName \in DOMAIN dep.peerDependencies :
       peerName \in DOMAIN ht.root
          => satisfies(ht.root[peerName].version, dep.peerDependencies[peerName])

\* lines 386-412
canBeHoisted(ht, dep) ==
    /\ \A n \in DOMAIN ht.root :
          dep.name \in DOMAIN ht.root[n].peerDependencies
             => satisfies(dep.version, ht.root[n].peerDependencies[dep.name])
    /\ \A peerName \in DOMAIN dep.peerDependencies :
          peerName \in DOMAIN ht.root
             => satisfies(ht.root[peerName].version, dep.peerDependencies[peerName])

\* variant of placeNested: the bucket is named after the package itself
placeNestedUnderOwnKey(ht, parentPath, hd) ==
    LET own == nodeKeyOf(hd.name, hd.version)
        bucket == IF own \in DOMAIN ht.nested THEN ht.nested[own] ELSE EmptyMap
    IN  [ht EXCEPT !.nested = MapSet(ht.nested, own, MapSet(bucket, hd.name, hd))]

\* lines 437-442 and 448-453
placeNested(ht, parentPath, hd) ==
    LET bucket == IF parentPath \in DOMAIN ht.nested
                  THEN ht.nested[parentPath] ELSE EmptyMap
    IN  [ht EXCEPT !.nested = MapSet(ht.nested, parentPath,
                                     MapSet(bucket, hd.name, hd))]

placeRoot(ht, hd) == [ht EXCEPT !.root = MapSet(ht.root, hd.name, hd)]

\* variant of processNode: a name that is already at root is always nested
processNodeNestOnSameName(ht, tr, path, parentPath, isRoot) ==
    LET node == tr[path]
    IN  IF isRoot
        THEN placeRoot(ht, convertToHoistedDep(tr, path, NoParent))
        ELSE IF node.name \notin DOMAIN ht.root /\ canBeHoisted(ht, node)
        THEN placeRoot(ht, convertToHoistedDep(tr, path, NoParent))
        ELSE placeNested(ht, parentPath, convertToHoistedDep(tr, path, parentPath))

\* variant of processNode: a conflicting later candidate takes the root slot
processNodeLastWins(ht, tr, path, parentPath, isRoot) ==
    LET node == tr[path]
    IN  IF isRoot
        THEN placeRoot(ht, convertToHoistedDep(tr, path, NoParent))
        ELSE IF node.name \notin DOMAIN ht.root
        THEN IF canBeHoisted(ht, node)
             THEN placeRoot(ht, convertToHoistedDep(tr, path, NoParent))
             ELSE placeNested(ht, parentPath,
                              convertToHoistedDep(tr, path, parentPath))
        ELSE IF hasVersionConflict(ht.root[node.name], node)
                \/ ~canBeHoisted(ht, node)
             THEN placeRoot(placeNested(ht, parentPath, ht.root[node.name]),
                            convertToHoistedDep(tr, path, NoParent))
             ELSE ht

\* lines 420-455: what one processNode call does to the hoisted tree
processNode(ht, tr, path, parentPath, isRoot) ==
    LET node == tr[path]
    IN  IF isRoot
        THEN placeRoot(ht, convertToHoistedDep(tr, path, NoParent))
        ELSE IF node.name \notin DOMAIN ht.root
        THEN IF canBeHoisted(ht, node)
             THEN placeRoot(ht, convertToHoistedDep(tr, path, NoParent))
             ELSE placeNested(ht, parentPath,
                              convertToHoistedDep(tr, path, parentPath))
        ELSE IF hasVersionConflict(ht.root[node.name], node)
                \/ ~canBeHoisted(ht, node)
             THEN placeNested(ht, parentPath,
                              convertToHoistedDep(tr, path, parentPath))
             ELSE ht

\* variant of childCalls: the dependencies are visited last to first
childCallsReversed(tr, path) ==
    [i \in 1..Len(tr[path].dependencies) |->
        [path |-> Append(path,
                         tr[path].dependencies[Len(tr[path].dependencies) + 1 - i]),
         parentPath |-> nodeKeyOf(tr[path].name, tr[path].version),
         isRoot |-> FALSE]]

\* lines 424-426 and 458-460: the recursive calls, in map order
childCalls(tr, path) ==
    [i \in 1..Len(tr[path].dependencies) |->
        [path |-> Append(path, tr[path].dependencies[i]),
         parentPath |-> nodeKeyOf(tr[path].name, tr[path].version),
         isRoot |-> FALSE]]

\* line 463
rootCall == [path |-> <<>>, parentPath |-> "", isRoot |-> TRUE]

(***************************************************************************)
(* analyzeMultiple: the virtual root and the combined flat index.          *)
(***************************************************************************)
\* lines 498-507
virtualTree(ind, order) ==
    LET paths == {<<>>} \cup
                 UNION {{<<k>> \o q : q \in DOMAIN ind[k].dependencyTree} :
                           k \in DOMAIN ind}
    IN  [p \in paths |->
           IF p = <<>>
           THEN [name |-> "virtual-root", version |-> "0.0.0",
                 dependencies |-> order, peerDependencies |-> NoPeers]
           ELSE ind[p[1]].dependencyTree[Tail(p)]]

\* variant of requiredByOwner: the combined entry keeps the Set object of the
\* individual result it was first seen in
requiredByOwnerShared(pkgKey) == pkgKey

\* line 515: the requiredBy of a new combined entry is `new Set(dep.requiredBy)`,
\* a Set object that no individual result holds
requiredByOwner(pkgKey) == Null

NoMerge == [flat |-> EmptyMap, owner |-> EmptyMap]

\* lines 506-524: acc.flat is combinedFlatDeps and acc.owner names, for each of
\* its keys, the individual result whose Set object the entry holds (Null: its
\* own); ind is the individual map, whose Sets change when they are shared
RECURSIVE mergeFlat(_, _, _)
mergeFlat(acc, ind, order) ==
    IF order = <<>> THEN [flat |-> acc.flat, owner |-> acc.owner, ind |-> ind]
    ELSE LET pkgKey == Head(order)
             flat == ind[pkgKey].flatDependencies
             fresh == DOMAIN flat \ DOMAIN acc.flat
             merged == [k \in DOMAIN acc.flat \cup DOMAIN flat |->
                          IF k \in fresh
                          THEN [name |-> flat[k].name, version |-> flat[k].version,
                                requiredBy |-> flat[k].requiredBy]
                          ELSE IF k \in DOMAIN flat
                          THEN [acc.flat[k] EXCEPT
                                  !.requiredBy = @ \cup flat[k].requiredBy]
                          ELSE acc.flat[k]]
             owner == [k \in DOMAIN merged |->
                         IF k \in fresh THEN requiredByOwner(pkgKey)
                         ELSE acc.owner[k]]
             written == [i \in DOMAIN ind |->
                           [ind[i] EXCEPT !.flatDependencies =
                              [k \in DOMAIN ind[i].flatDependencies |->
                                 IF k \in DOMAIN acc.flat /\ acc.owner[k] = i
                                 THEN [ind[i].flatDependencies[k] EXCEPT
                                         !.requiredBy = merged[k].requiredBy]
                                 ELSE ind[i].flatDependencies[k]]]]
         IN  mergeFlat([flat |-> merged, owner |-> owner], written, Tail(order))

(***************************************************************************)
(* The requests the client issues.                                         *)
(***************************************************************************)
SingleRequests ==
    {<<"app", "1.0.0">>, <<"e", "latest">>, <<"x", "1.0.0">>, <<"s", "1.0.0">>,
     <<"p", "^1.0.0">>, <<"g", "1.0.0">>, <<"ghost", "1.0.0">>,
     <<"garbled", "1.0.0">>, <<"@scope/pkg", "1.0.0">>,
     <<"t", "1.0.0">>, <<"t", "latest">>, <<"t", "^1.0.0">>, <<"t", "^2.0.0">>,
     <<"t", "*">>, <<"t", "next">>, <<"t", "bogus">>, <<"t", "constructor">>}

PackageLists ==
    {<<>>,
     <<Pkg("A", "1.0.0"), Pkg("B", "1.0.0")>>,
     <<Pkg("B", "1.0.0"), Pkg("A", "1.0.0")>>,
     <<Pkg("d", "1.0.0"), Pkg("d", "2.0.0")>>,
     <<Pkg("d", "1.0.0"), Pkg("d", "2.0.0"), Pkg("d", "1.1.0")>>,
     <<Pkg("c", "latest"), Pkg("c", "latest")>>,
     <<Pkg("d", "constructor"), Pkg("d", "latest")>>,
     <<Pkg("e", "1.0.0"), Pkg("s", "1.0.0")>>,
     <<Pkg("b", "1.0.0"), Pkg("c", "latest")>>,
     <<Pkg("d", "latest"), Pkg("ghost", "1.0.0"), Pkg("b", "1.0.0")>>}

NoVersionNames == {"d"}

\* the requests of the specification that repeats calls on one analyzer
RepeatSingleRequests ==
    {<<"app", "1.0.0">>, <<"e", "latest">>, <<"s", "1.0.0">>, <<"b", "^1.0.0">>,
     <<"t", "^1.0.0">>, <<"g", "1.0.0">>}

RepeatPackageLists ==
    {<<Pkg("c", "latest"), Pkg("d", "^1.0.0")>>,
     <<Pkg("e", "latest"), Pkg("ghost", "1.0.0")>>}

(***************************************************************************)
(* Initial state: a freshly constructed analyzer.                          *)
(***************************************************************************)
InitCalls(n) ==
    /\ packageCache = EmptyMap
    /\ fetchCount = EmptyMap
    /\ callFetches = 0
    /\ tasks = EmptyMap
    /\ flatDeps = EmptyMap
    /\ phase = "idle"
    /\ call = NoCall
    /\ individual = EmptyMap
    /\ individualOrder = <<>>
    /\ combinedFlat = EmptyMap
    /\ tree = EmptyMap
    /\ hoistedTree = EmptyHoistedTree
    /\ work = <<>>
    /\ firstResult = EmptyMap
    /\ callsLeft = n

Init == InitCalls(1)

InitRepeat == InitCalls(MaxCalls)

(***************************************************************************)
(* analyze: the three ways in.                                             *)
(***************************************************************************)
canCall == phase = "idle" /\ callsLeft > 0 /\ quiescent

\* lines 565-566 and 467-476
AnalyzeSingle(name, version) ==
    /\ canCall
    /\ version # Null
    /\ call' = [NoCall EXCEPT !.kind = "single", !.name = name,
                              !.version = version, !.status = "pending",
                              !.repeat = cacheKey(name, version) \in DOMAIN firstResult]
    /\ startBuild(name, version, 0)
    /\ phase' = "building"
    /\ callsLeft' = callsLeft - 1
    /\ individual' = EmptyMap
    /\ individualOrder' = <<>>
    /\ combinedFlat' = EmptyMap
    /\ tree' = EmptyMap
    /\ hoistedTree' = EmptyHoistedTree
    /\ work' = <<>>
    /\ UNCHANGED <<packageCache, firstResult>>

\* variant of AnalyzeNoVersion: the missing version is passed on to analyzeSingle
AnalyzeNoVersionAsBuild(name) ==
    /\ canCall
    /\ call' = [NoCall EXCEPT !.kind = "single", !.name = name,
                              !.status = "pending"]
    /\ startBuild(name, Null, 0)
    /\ phase' = "building"
    /\ callsLeft' = callsLeft - 1
    /\ individual' = EmptyMap
    /\ individualOrder' = <<>>
    /\ combinedFlat' = EmptyMap
    /\ tree' = EmptyMap
    /\ hoistedTree' = EmptyHoistedTree
    /\ work' = <<>>
    /\ UNCHANGED <<packageCache, firstResult>>

\* lines 567-571: the single-package form without a version
AnalyzeNoVersion(name) ==
    /\ canCall
    /\ call' = [NoCall EXCEPT !.kind = "single", !.name = name,
                              !.status = "rejected",
                              !.error = [kind |-> "Error", name |-> name,
                                         version |-> Null,
                                         cause |-> "Invalid arguments"]]
    /\ callFetches' = 0
    /\ callsLeft' = callsLeft - 1
    /\ UNCHANGED <<packageCache, fetchCount, tasks, flatDeps, phase, individual,
                   individualOrder, combinedFlat, tree, hoistedTree, work,
                   firstResult>>

\* lines 563-564 and 486-492 (496-527 when the array is empty)
AnalyzeMultiple(packages) ==
    /\ canCall
    /\ call' = [NoCall EXCEPT !.kind = "multi", !.packages = packages,
                              !.idx = IF packages = <<>> THEN 0 ELSE 1,
                              !.status = "pending"]
    /\ callsLeft' = callsLeft - 1
    /\ individual' = EmptyMap
    /\ individualOrder' = <<>>
    /\ combinedFlat' = EmptyMap
    /\ hoistedTree' = EmptyHoistedTree
    /\ IF packages = <<>>
       THEN /\ tree' = virtualTree(EmptyMap, <<>>)
            /\ work' = <<rootCall>>
            /\ phase' = "combining"
            /\ tasks' = EmptyMap
            /\ flatDeps' = EmptyMap
            /\ callFetches' = 0
            /\ UNCHANGED fetchCount
       ELSE /\ startBuild(packages[1].name, packages[1].version, 0)
            /\ tree' = EmptyMap
            /\ work' = <<>>
            /\ phase' = "building"
    /\ UNCHANGED <<packageCache, firstResult>>

(***************************************************************************)
(* Steps of the promises of buildDependencyTree.                           *)
(***************************************************************************)
\* variant of fail: the error of a dependency is swallowed and the build goes on
failSwallowed(p, error) ==
    /\ tasks' = [tasks EXCEPT ![p].pc = "done"]
    /\ UNCHANGED <<call, phase>>

\* variant of fail: every failure replaces the error the caller sees
failLastWins(p, error) ==
    /\ tasks' = [q \in DOMAIN tasks |->
                   IF IsPrefix(q, p) THEN [tasks[q] EXCEPT !.pc = "failed"]
                   ELSE tasks[q]]
    /\ call' = [call EXCEPT !.status = "rejected", !.error = error]
    /\ phase' = "idle"

\* a rejection travels up through every Promise.all to the caller of analyze
fail(p, error) ==
    /\ tasks' = [q \in DOMAIN tasks |->
                   IF IsPrefix(q, p) THEN [tasks[q] EXCEPT !.pc = "failed"]
                   ELSE tasks[q]]
    /\ IF tasks[<<>>].pc # "failed"
       THEN /\ call' = [call EXCEPT !.status = "rejected", !.error = error]
            /\ phase' = "idle"
       ELSE UNCHANGED <<call, phase>>

\* lines 90-143, then 153-192: the registry answers the request of promise p
FetchReturn(p, outcome) ==
    /\ p \in DOMAIN tasks
    /\ tasks[p].pc = "fetching"
    /\ ~microtaskPending
    /\ outcome \in FetchOutcomes(tasks[p].name)
    /\ LET r == packageInfoOf(tasks[p].name, tasks[p].version, outcome)
       IN  IF r.ok
           THEN /\ packageCache' = MapSet(packageCache,
                                    cacheKey(tasks[p].name, tasks[p].version), r.info)
                /\ expand(p, r.info, packageCache')
                /\ UNCHANGED <<phase, call>>
           ELSE /\ fail(p, r.error)
                /\ UNCHANGED <<packageCache, flatDeps, fetchCount, callFetches>>
    /\ UNCHANGED <<individual, individualOrder, combinedFlat, tree, hoistedTree,
                   work, firstResult, callsLeft>>

\* lines 84-86, then 153-192: promise p got its PackageInfo from the cache
Resume(p) ==
    /\ p \in DOMAIN tasks
    /\ tasks[p].pc = "cached"
    /\ expand(p, packageCache[cacheKey(tasks[p].name, tasks[p].version)],
              packageCache)
    /\ UNCHANGED <<packageCache, phase, call, individual, individualOrder,
                   combinedFlat, tree, hoistedTree, work, firstResult, callsLeft>>

\* lines 192-201: Promise.all of a dependency resolved, the node is returned
Complete(p) ==
    /\ p \in DOMAIN tasks
    /\ p # <<>>
    /\ completable(p)
    /\ tasks' = [tasks EXCEPT ![p].pc = "done",
                              ![SubSeq(p, 1, Len(p) - 1)].arrivals =
                                  Append(@, p[Len(p)])]
    /\ UNCHANGED <<packageCache, fetchCount, callFetches, flatDeps, phase, call,
                   individual, individualOrder, combinedFlat, tree, hoistedTree,
                   work, firstResult, callsLeft>>

\* lines 192-201 for the root, then 477 and 319-322, 463
BuildDone ==
    /\ <<>> \in DOMAIN tasks
    /\ completable(<<>>)
    /\ tasks' = [tasks EXCEPT ![<<>>].pc = "done"]
    /\ tree' = treeOf(tasks')
    /\ hoistedTree' = EmptyHoistedTree
    /\ work' = <<rootCall>>
    /\ phase' = "hoisting"
    /\ UNCHANGED <<packageCache, fetchCount, callFetches, flatDeps, call,
                   individual, individualOrder, combinedFlat, firstResult,
                   callsLeft>>

(***************************************************************************)
(* Steps of convertToHoistedTree and the return paths of analyze.          *)
(***************************************************************************)
\* lines 415-461: one processNode call
HoistStep ==
    /\ phase \in {"hoisting", "combining"}
    /\ work # <<>>
    /\ hoistedTree' = processNode(hoistedTree, tree, Head(work).path,
                                  Head(work).parentPath, Head(work).isRoot)
    /\ work' = childCalls(tree, Head(work).path) \o Tail(work)
    /\ UNCHANGED <<packageCache, fetchCount, callFetches, tasks, flatDeps, phase,
                   call, individual, individualOrder, combinedFlat, tree,
                   firstResult, callsLeft>>

analysisResult ==
    [dependencyTree |-> tree, hoistedTree |-> hoistedTree,
     flatDependencies |-> flatDeps]

\* lines 464, 479-483 and 566: analyze(name, version) resolves
SingleDone ==
    /\ phase = "hoisting"
    /\ work = <<>>
    /\ call.kind = "single"
    /\ call' = [call EXCEPT !.status = "resolved"]
    /\ phase' = "idle"
    /\ firstResult' =
         IF cacheKey(call.name, call.version) \in DOMAIN firstResult
         THEN firstResult
         ELSE MapSet(firstResult, cacheKey(call.name, call.version), analysisResult)
    /\ UNCHANGED <<packageCache, fetchCount, callFetches, tasks, flatDeps,
                   individual, individualOrder, combinedFlat, tree, hoistedTree,
                   work, callsLeft>>

\* line 493: the individual map after individual.set(pkgKey, result)
recordedIndividual ==
    LET pkg == call.packages[call.idx]
    IN  MapSet(individual, cacheKey(pkg.name, pkg.version), analysisResult)

\* line 493: a key that is set again keeps its place in the Map's order
recordedOrder ==
    LET pkg == call.packages[call.idx]
        key == cacheKey(pkg.name, pkg.version)
    IN  IF key \in DOMAIN individual THEN individualOrder
        ELSE Append(individualOrder, key)

recordIndividual ==
    /\ individual' = recordedIndividual
    /\ individualOrder' = recordedOrder

\* variant of NextPackage: the analysis of the current package is not awaited
NextPackageNotAwaited ==
    /\ phase \in {"building", "hoisting"}
    /\ call.kind = "multi"
    /\ call.idx < Len(call.packages)
    /\ recordIndividual
    /\ call' = [call EXCEPT !.idx = @ + 1]
    /\ startBuild(call.packages[call.idx + 1].name,
                  call.packages[call.idx + 1].version, callFetches)
    /\ phase' = "building"
    /\ UNCHANGED <<packageCache, combinedFlat, tree, hoistedTree, work,
                   firstResult, callsLeft>>

\* lines 491-494: one package is analysed, the next one starts
NextPackage ==
    /\ phase = "hoisting"
    /\ work = <<>>
    /\ call.kind = "multi"
    /\ call.idx < Len(call.packages)
    /\ recordIndividual
    /\ call' = [call EXCEPT !.idx = @ + 1]
    /\ startBuild(call.packages[call.idx + 1].name,
                  call.packages[call.idx + 1].version, callFetches)
    /\ phase' = "building"
    /\ UNCHANGED <<packageCache, combinedFlat, tree, hoistedTree, work,
                   firstResult, callsLeft>>

\* lines 491-527: the last package is analysed, the combined view is started
Combine ==
    /\ phase = "hoisting"
    /\ work = <<>>
    /\ call.kind = "multi"
    /\ call.idx = Len(call.packages)
    /\ individualOrder' = recordedOrder
    /\ individual' = mergeFlat(NoMerge, recordedIndividual, recordedOrder).ind
    /\ combinedFlat' = mergeFlat(NoMerge, recordedIndividual, recordedOrder).flat
    /\ tree' = virtualTree(individual', individualOrder')
    /\ hoistedTree' = EmptyHoistedTree
    /\ work' = <<rootCall>>
    /\ phase' = "combining"
    /\ UNCHANGED <<packageCache, fetchCount, callFetches, tasks, flatDeps, call,
                   firstResult, callsLeft>>

\* lines 529-535 and 564: analyze(packages) resolves
MultipleDone ==
    /\ phase = "combining"
    /\ work = <<>>
    /\ call' = [call EXCEPT !.status = "resolved"]
    /\ phase' = "idle"
    /\ UNCHANGED <<packageCache, fetchCount, callFetches, tasks, flatDeps,
                   individual, individualOrder, combinedFlat, tree, hoistedTree,
                   work, firstResult, callsLeft>>

Next ==
    \/ \E r \in SingleRequests : AnalyzeSingle(r[1], r[2])
    \/ \E n \in NoVersionNames : AnalyzeNoVersion(n)
    \/ \E ps \in PackageLists : AnalyzeMultiple(ps)
    \/ \E p \in DOMAIN tasks :
          \E outcome \in {"ok", "non2xx", "badjson", "abort"} : FetchReturn(p, outcome)
    \/ \E p \in DOMAIN tasks : Resume(p)
    \/ \E p \in DOMAIN tasks : Complete(p)
    \/ BuildDone
    \/ HoistStep
    \/ SingleDone
    \/ NextPackage
    \/ Combine
    \/ MultipleDone

Spec == Init /\ [][Next]_vars

NextRepeat ==
    \/ \E r \in RepeatSingleRequests : AnalyzeSingle(r[1], r[2])
    \/ \E n \in NoVersionNames : AnalyzeNoVersion(n)
    \/ \E ps \in RepeatPackageLists : AnalyzeMultiple(ps)
    \/ \E p \in DOMAIN tasks :
          \E outcome \in {"ok", "non2xx", "badjson", "abort"} : FetchReturn(p, outcome)
    \/ \E p \in DOMAIN tasks : Resume(p)
    \/ \E p \in DOMAIN tasks : Complete(p)
    \/ BuildDone
    \/ HoistStep
    \/ SingleDone
    \/ NextPackage
    \/ Combine
    \/ MultipleDone

SpecRepeat == InitRepeat /\ [][NextRepeat]_vars

(***************************************************************************)
(* Properties.                                                             *)
(***************************************************************************)
requestKey == cacheKey(call.name, call.version)

resolvedTasks == {p \in DOMAIN tasks : tasks[p].pc \in {"waiting", "done"}}

taskKey(p) == nodeKeyOf(tasks[p].name, tasks[p].info.version)

\* C1: single-flight -- at most one registry fetch is ever issued per cache
\* key "name@descriptor", whatever the interleaving of the resolutions.
SingleFlight == \A k \in DOMAIN fetchCount : fetchCount[k] <= 1

\* the promise p resolved to a "name@version" that is already on its active path
revisits(p) ==
    /\ p \in resolvedTasks
    /\ \E q \in resolvedTasks : Len(q) < Len(p) /\ IsPrefix(q, p) /\ taskKey(q) = taskKey(p)

\* C2: cycle tolerance -- a node that revisits a "name@version" of its active
\* path is emitted with empty dependencies: no child resolution is started
\* for it.
CycleTruncated ==
    \A p \in DOMAIN tasks :
       revisits(p) => childPaths(p, tasks[p].info) \cap DOMAIN tasks = {}

\* C3: cache idempotence -- once analyze(name, version) has succeeded, a later
\* analyze(name, version) on the same analyzer issues no registry fetch, does
\* not fail, and resolves with a dependency tree, hoisted tree and flat index
\* equal to those of the first call.
CacheIdempotence ==
    (call.kind = "single" /\ call.repeat) =>
        /\ callFetches = 0
        /\ call.status # "rejected"
        /\ call.status = "resolved" => analysisResult = firstResult[requestKey]

\* a repeated analyze of a package with dependencies has resolved
CacheIdempotenceWitness ==
    /\ call.kind = "single"
    /\ call.repeat
    /\ call.status = "resolved"
    /\ Cardinality(DOMAIN tree) > 3
    /\ hoistedTree.nested # EmptyMap

\* C4: peer satisfaction at root -- in every state of the placement walk and
\* in the returned hoisted tree, every peer range declared by a root entry is
\* satisfied by the root entry of that peer name, if there is one.
PeerSatisfiedAtRoot ==
    \A r \in DOMAIN hoistedTree.root :
       \A peerName \in DOMAIN hoistedTree.root[r].peerDependencies :
          peerName \in DOMAIN hoistedTree.root =>
             satisfies(hoistedTree.root[peerName].version,
                       hoistedTree.root[r].peerDependencies[peerName])

\* the versions of package n present anywhere in hoisted tree ht
versionsAtRoot(ht, n) ==
    IF n \in DOMAIN ht.root THEN {ht.root[n].version} ELSE {}

versionsNested(ht, n) ==
    {ht.nested[b][n].version : b \in {c \in DOMAIN ht.nested : n \in DOMAIN ht.nested[c]}}

S7Lists == {<<Pkg("A", "1.0.0"), Pkg("B", "1.0.0")>>,
            <<Pkg("B", "1.0.0"), Pkg("A", "1.0.0")>>}

S7Returned ==
    call.kind = "multi" /\ call.packages \in S7Lists /\ call.status = "resolved"

\* C5 as stated: scenario S7 -- A (peer react@^18) and B (depends on
\* react@17.0.2) analysed together give a combined hoisted tree with one
\* version of react at root and another version of react in a nested bucket.
S7TwoVersions ==
    S7Returned =>
        /\ "react" \in DOMAIN hoistedTree.root
        /\ \E v \in versionsNested(hoistedTree, "react") :
              v # hoistedTree.root["react"].version

\* C5 as amended: the combined hoisted tree of S7 holds exactly one version of
\* react, 17.0.2, and never drops it: with A before B it is in the nested
\* bucket of B@1.0.0 and root has no react; with B before A it is at root and
\* no bucket holds a react.
S7OneVersion ==
    S7Returned =>
        /\ versionsAtRoot(hoistedTree, "react") \cup versionsNested(hoistedTree, "react")
              = {"17.0.2"}
        /\ call.packages[1].name = "A" =>
              /\ "react" \notin DOMAIN hoistedTree.root
              /\ "B@1.0.0" \in DOMAIN hoistedTree.nested
              /\ "react" \in DOMAIN hoistedTree.nested["B@1.0.0"]
        /\ call.packages[1].name = "B" =>
              /\ "react" \in DOMAIN hoistedTree.root
              /\ versionsNested(hoistedTree, "react") = {}

\* S7 has returned with A analysed first
S7Witness == S7Returned /\ call.packages[1].name = "A"

returned == call.status = "resolved"

\* C6: no duplicate of a hoisted package -- in a returned hoisted tree no
\* nested bucket holds an entry with the name and version of a root entry.
NoDuplicateOfHoisted ==
    returned =>
        \A n \in DOMAIN hoistedTree.root :
           hoistedTree.root[n].version \notin versionsNested(hoistedTree, n)

\* the processNode call that is next, if it is for a non-root node
visiting == phase \in {"hoisting", "combining"} /\ work # <<>> /\ ~Head(work).isRoot

visited == tree[Head(work).path]

mayNest ==
    \/ /\ visited.name \in DOMAIN hoistedTree.root
       /\ hasVersionConflict(hoistedTree.root[visited.name], visited)
    \/ ~canBeHoisted(hoistedTree, visited)

\* C7: placement minimality -- a non-root node is written into a nested bucket
\* only if, when it is visited, its name is at root with a conflicting
\* version or CanHoist fails; otherwise the buckets stay as they are and root
\* holds the node's name and version.
PlacementMinimality ==
    [][visiting =>
         /\ hoistedTree'.nested # hoistedTree.nested => mayNest
         /\ ~mayNest =>
              /\ hoistedTree'.nested = hoistedTree.nested
              /\ visited.name \in DOMAIN hoistedTree'.root
              /\ hoistedTree'.root[visited.name].version = visited.version]_vars

\* a node was reused at root while another one sits in a bucket for a conflict
PlacementMinimalityWitness ==
    /\ returned
    /\ call.kind = "single"
    /\ call.name = "e"
    /\ "b@1.0.0" \in DOMAIN hoistedTree.nested
    /\ hoistedTree.nested["b@1.0.0"]["d"].version = "1.1.0"
    /\ hoistedTree.root["d"].version = "1.0.0"

\* C8: the synthetic virtual root of a multi-package analysis is never a key
\* of combined.hoistedTree.root.
VirtualRootNotAtRoot ==
    phase = "combining" => "virtual-root" \notin DOMAIN hoistedTree.root

\* C9: analyze([]) succeeds without a registry fetch and returns an empty
\* individual map, an empty combined flat index and a combined hoisted tree
\* whose root and nested maps are both empty.
EmptyListResult ==
    (call.kind = "multi" /\ call.packages = <<>> /\ returned) =>
        /\ callFetches = 0
        /\ individual = EmptyMap
        /\ combinedFlat = EmptyMap
        /\ hoistedTree.root = EmptyMap
        /\ hoistedTree.nested = EmptyMap

matchesNothing(name, descriptor) ==
    /\ name \in DOMAIN Registry
    /\ descriptor \notin DOMAIN Registry[name].versions
    /\ descriptor \notin DOMAIN Registry[name].distTags
    /\ \/ validRange(descriptor) = Null
       \/ maxSatisfying(DOMAIN Registry[name].versions, descriptor) = Null

\* the resolution of (name, descriptor) cannot succeed
cannotResolve(name, descriptor) ==
    \/ FetchOutcomes(name) \cap {"ok"} = {}
    \/ matchesNothing(name, descriptor)

\* C11: every failure of a resolution surfaces from analyze as a
\* PackageNotFound error for that name and descriptor with the originating
\* error attached as its cause; a resolution that must fail (no 2xx response,
\* unparseable body, descriptor matching no version, tag or range) never
\* produces a successful result.
FailureIsPackageNotFound ==
    /\ \A p \in DOMAIN tasks :
          cannotResolve(tasks[p].name, tasks[p].version) => p \notin resolvedTasks
    /\ (call.status = "rejected" /\ call.version # Null) =>
          /\ call.error.kind = "PackageNotFoundError"
          /\ call.error.cause # Null
          /\ \E p \in DOMAIN tasks :
                /\ tasks[p].pc = "failed"
                /\ call.error.name = tasks[p].name
                /\ call.error.version = tasks[p].version

\* the regular dependencies the registry declares for a node of a tree
declaredOf(node) ==
    IF node.name \in DOMAIN Registry
       /\ node.version \in DOMAIN Registry[node.name].versions
    THEN Registry[node.name].versions[node.version].dependencies
    ELSE <<>>

\* every declared dependency of every node of tr is a resolved child node
treeIsWhole(tr) ==
    \A p \in DOMAIN tr :
       \A i \in 1..Len(declaredOf(tr[p])) :
          /\ Append(p, declaredOf(tr[p])[i][1]) \in DOMAIN tr
          /\ tr[Append(p, declaredOf(tr[p])[i][1])].version # Null

\* C12: no partial success -- if the resolution of any node of the closure
\* fails, the analyze call (single or multi-package) rejects, and no tree
\* that is handed on or returned lacks a declared dependency.
NoPartialSuccess ==
    /\ (\E p \in DOMAIN tasks : tasks[p].pc = "failed") => call.status = "rejected"
    /\ treeIsWhole(tree)
    /\ \A k \in DOMAIN individual : treeIsWhole(individual[k].dependencyTree)

\* a dependency failed, its sibling was resolved all the same, the call rejected
NoPartialSuccessWitness ==
    /\ call.status = "rejected"
    /\ <<"ghost">> \in DOMAIN tasks
    /\ <<"d">> \in DOMAIN tasks
    /\ tasks[<<"ghost">>].pc = "failed"
    /\ tasks[<<"d">>].pc = "done"

\* "a@1 > b@2 > ..." down to and including the node at path p of tr
RECURSIVE pathString(_, _)
pathString(tr, p) ==
    IF p = <<>> THEN nodeKeyOf(tr[p].name, tr[p].version)
    ELSE pathString(tr, SubSeq(p, 1, Len(p) - 1)) \o " > "
         \o nodeKeyOf(tr[p].name, tr[p].version)

\* the path string of the parent chain of the occurrence at p
parentChain(tr, p) ==
    IF p = <<>> THEN "root" ELSE pathString(tr, SubSeq(p, 1, Len(p) - 1))

flatCovers(tr, flat) ==
    \A p \in DOMAIN tr :
       LET key == nodeKeyOf(tr[p].name, tr[p].version)
       IN  /\ key \in DOMAIN flat
           /\ flat[key].name = tr[p].name
           /\ flat[key].version = tr[p].version
           /\ parentChain(tr, p) \in flat[key].requiredBy

\* C13: flat index completeness -- in the result of a successful analysis
\* (a single-package result, or each individual result of a multi-package
\* one) every node occurrence of the logical tree has its key "name@version"
\* in flatDependencies, and the requiredBy of that key contains the path
\* string of the parent chain of every occurrence ("root" for the top node).
FlatIndexComplete ==
    /\ (phase = "hoisting" \/ (returned /\ call.kind = "single")) =>
          flatCovers(tree, flatDeps)
    /\ \A k \in DOMAIN individual :
          flatCovers(individual[k].dependencyTree, individual[k].flatDependencies)

\* a returned result in which one pair occurs under two distinct parent chains
FlatIndexCompleteWitness ==
    /\ returned
    /\ call.kind = "single"
    /\ \E p, q \in DOMAIN tree :
          /\ tree[p].name = tree[q].name
          /\ tree[p].version = tree[q].version
          /\ parentChain(tree, p) # parentChain(tree, q)
          /\ {parentChain(tree, p), parentChain(tree, q)} \subseteq
                flatDeps[nodeKeyOf(tree[p].name, tree[p].version)].requiredBy

\* the individual results that hold an entry for key
holders(ind, key) == {i \in DOMAIN ind : key \in DOMAIN ind[i].flatDependencies}

\* key by key, the union of the requiredBy sets of the individual results
flatUnion(ind) ==
    [key \in UNION {DOMAIN ind[i].flatDependencies : i \in DOMAIN ind} |->
        UNION {ind[i].flatDependencies[key].requiredBy : i \in holders(ind, key)}]

combinedIsUnionOf(ind) ==
    /\ DOMAIN combinedFlat = DOMAIN flatUnion(ind)
    /\ \A key \in DOMAIN combinedFlat :
          combinedFlat[key].requiredBy = flatUnion(ind)[key]

\* C14: in a multi-package result combined.flatDependencies has exactly the
\* union of the keys of the individual flatDependencies maps, the requiredBy
\* of each key is the union of the requiredBy sets of that key across the
\* individual results, and building the combined map leaves the requiredBy
\* sets of every individual result as analyzeSingle returned them.
CombinedFlatIsUnion ==
    /\ []((phase = "combining" \/ (returned /\ call.kind = "multi")) =>
             combinedIsUnionOf(individual))
    /\ [][(phase = "hoisting" /\ phase' = "combining") =>
             /\ individual' = recordedIndividual
             /\ combinedIsUnionOf(recordedIndividual)']_vars

\* a returned multi-package result with a key that two individual results
\* hold with different requiredBy sets
CombinedFlatIsUnionWitness ==
    /\ returned
    /\ call.kind = "multi"
    /\ \E key \in DOMAIN combinedFlat :
          \E i, j \in holders(individual, key) :
             /\ individual[i].flatDependencies[key].requiredBy
                   # individual[j].flatDependencies[key].requiredBy
             /\ combinedFlat[key].requiredBy =
                   individual[i].flatDependencies[key].requiredBy
                   \cup individual[j].flatDependencies[key].requiredBy

requestedKeys ==
    {cacheKey(call.packages[i].name, call.packages[i].version) :
        i \in 1..Len(call.packages)}

requestedNames == {call.packages[i].name : i \in 1..Len(call.packages)}

virtualRootKey == nodeKeyOf("virtual-root", "0.0.0")

\* C15 as stated: in a successful multi-package analysis individual has
\* exactly one key "name@descriptor" per requested entry and the root of the
\* combined hoisted tree has an entry for the name of every requested package.
RequestedAtRoot ==
    (returned /\ call.kind = "multi") =>
       /\ DOMAIN individual = requestedKeys
       /\ requestedNames \subseteq DOMAIN hoistedTree.root

\* C15 amended: the keys of individual are exactly the "name@descriptor"
\* strings of the requested entries, and the name of every requested package
\* has an entry at the root of the combined hoisted tree or, when a peer
\* constraint keeps it from the root, in the nested bucket of the virtual root.
RequestedPlaced ==
    (returned /\ call.kind = "multi") =>
       /\ DOMAIN individual = requestedKeys
       /\ \A n \in requestedNames :
             \/ n \in DOMAIN hoistedTree.root
             \/ /\ virtualRootKey \in DOMAIN hoistedTree.nested
                /\ n \in DOMAIN hoistedTree.nested[virtualRootKey]

\* a requested package that is not at root but in the virtual root's bucket
RequestedPlacedWitness ==
    /\ returned
    /\ call.kind = "multi"
    /\ \E n \in requestedNames :
          /\ n \notin DOMAIN hoistedTree.root
          /\ virtualRootKey \in DOMAIN hoistedTree.nested
          /\ n \in DOMAIN hoistedTree.nested[virtualRootKey]

\* the names of the declared regular dependencies, in the registry's order
declaredNames(node) ==
    [i \in 1..Len(declaredOf(node)) |-> declaredOf(node)[i][1]]

childOrderDeclared(tr) ==
    \A p \in DOMAIN tr : tr[p].dependencies = declaredNames(tr[p])

\* C16: child order is independent of fetch timing -- for every node of a
\* logical tree the insertion order of its dependencies map is the key order
\* of the registry's per-version dependencies object, whatever the order in
\* which the concurrent resolutions of the children completed.
ChildOrderDeclared ==
    /\ (phase = "hoisting" \/ (returned /\ call.kind = "single")) =>
          childOrderDeclared(tree)
    /\ \A k \in DOMAIN individual : childOrderDeclared(individual[k].dependencyTree)

\* a returned tree with a node whose children completed in another order than
\* the declared one
ChildOrderDeclaredWitness ==
    /\ returned
    /\ call.kind = "single"
    /\ \E p \in DOMAIN tree :
          /\ Len(tree[p].dependencies) > 1
          /\ Len(tasks[p].arrivals) = Len(tree[p].dependencies)
          /\ tasks[p].arrivals # tree[p].dependencies

\* a step of the placement walk: the walk goes on in the same hoisted tree
walkStep == phase \in {"hoisting", "combining"} /\ phase' = phase

\* C17: first wins, no eviction -- during the placement walk an entry
\* root[name], once set, keeps its version and contents and is never removed;
\* a later candidate of the same name never replaces it.
FirstWins ==
    [][walkStep =>
          \A n \in DOMAIN hoistedTree.root :
             /\ n \in DOMAIN hoistedTree'.root
             /\ hoistedTree'.root[n] = hoistedTree.root[n]]_vars

\* the walk has just met a candidate with the name of a root entry and another
\* version, and has put it into a nested bucket
FirstWinsWitness ==
    /\ phase \in {"hoisting", "combining"}
    /\ \E b \in DOMAIN hoistedTree.nested :
          \E n \in DOMAIN hoistedTree.nested[b] :
             /\ n \in DOMAIN hoistedTree.root
             /\ hoistedTree.root[n].version # hoistedTree.nested[b][n].version
             /\ hasVersionConflict(hoistedTree.root[n], hoistedTree.nested[b][n])

\* every node of tr carries a version that the registry document of its
\* package publishes
versionsPublished(tr) ==
    \A p \in DOMAIN tr :
       /\ tr[p].name \in DOMAIN Registry
       /\ tr[p].version \in DOMAIN Registry[tr[p].name].versions

\* C18: every DependencyNode of a returned logical tree carries a concrete
\* version that is a key of the versions map of its package's registry
\* document, never the requested range or dist-tag string.
NodeVersionPublished ==
    /\ (returned /\ call.kind = "single") => versionsPublished(tree)
    /\ returned => \A k \in DOMAIN individual :
                      versionsPublished(individual[k].dependencyTree)

\* the peer descriptors the registry declares for a node of a tree
declaredPeersOf(node) ==
    IF node.name \in DOMAIN Registry
       /\ node.version \in DOMAIN Registry[node.name].versions
    THEN Registry[node.name].versions[node.version].peerDependencies
    ELSE NoPeers

\* the children of every node of tr are exactly its declared regular
\* dependencies, and its peer map is the declared one
onlyRegularEdges(tr) ==
    \A p \in DOMAIN tr :
       /\ SeqToSet(tr[p].dependencies) = SeqToSet(declaredNames(tr[p]))
       /\ {q \in DOMAIN tr : Len(q) = Len(p) + 1 /\ IsPrefix(p, q)}
             = {Append(p, n) : n \in SeqToSet(declaredNames(tr[p]))}
       /\ tr[p].peerDependencies = declaredPeersOf(tr[p])

\* every promise but the root one resolves a regular dependency, with the
\* declared descriptor, of the version its parent resolved to
promisesAreRegularEdges ==
    \A p \in DOMAIN tasks :
       p # <<>> =>
          LET parent == tasks[SubSeq(p, 1, Len(p) - 1)]
              declared == declaredOf([name |-> parent.name,
                                      version |-> parent.info.version])
          IN  \E i \in 1..Len(declared) :
                 declared[i] = <<tasks[p].name, tasks[p].version>>

\* the cache keys of the regular dependency edges of the registry
regularEdgeKeys ==
    UNION {UNION {{cacheKey(Registry[n].versions[v].dependencies[i][1],
                            Registry[n].versions[v].dependencies[i][2]) :
                      i \in 1..Len(Registry[n].versions[v].dependencies)} :
                  v \in DOMAIN Registry[n].versions} :
           n \in DOMAIN Registry}

\* the cache keys a client of the model asks for
clientKeys ==
    {cacheKey(r[1], r[2]) : r \in SingleRequests \cup RepeatSingleRequests}
    \cup UNION {{cacheKey(l[i].name, l[i].version) : i \in 1..Len(l)} :
                   l \in PackageLists \cup RepeatPackageLists}

\* C19: for every node of the logical tree the key set of its dependencies
\* map is exactly the key set of the dependencies object of the resolved
\* version; peerDependencies and devDependencies never produce child nodes or
\* registry fetches, and the node's peerDependencies map is a literal copy of
\* the declared peer descriptors.
OnlyRegularDependenciesExpanded ==
    /\ promisesAreRegularEdges
    /\ DOMAIN fetchCount \subseteq regularEdgeKeys \cup clientKeys
    /\ (phase = "hoisting" \/ (returned /\ call.kind = "single")) =>
          onlyRegularEdges(tree)
    /\ \A k \in DOMAIN individual : onlyRegularEdges(individual[k].dependencyTree)

\* a returned tree with a node whose version declares a dev-dependency or a
\* peer that is not among its children
OnlyRegularDependenciesExpandedWitness ==
    /\ returned
    /\ call.kind = "single"
    /\ \E p \in DOMAIN tree :
          /\ tree[p].version \in DOMAIN Registry[tree[p].name].versions
          /\ LET doc == Registry[tree[p].name].versions[tree[p].version]
             IN  \/ \E i \in 1..Len(doc.devDependencies) :
                       /\ Append(p, doc.devDependencies[i][1]) \notin DOMAIN tree
                       /\ cacheKey(doc.devDependencies[i][1],
                                   doc.devDependencies[i][2]) \notin DOMAIN fetchCount
                 \/ \E n \in DOMAIN doc.peerDependencies :
                       /\ Append(p, n) \notin DOMAIN tree
                       /\ tree[p].peerDependencies[n] = doc.peerDependencies[n]
                       /\ cacheKey(n, doc.peerDependencies[n]) \notin DOMAIN fetchCount

noVersionCall == call.kind = "single" /\ call.version = Null

\* C20: the single-package form of analyze with a name but no version fails
\* with a generic invalid-arguments error (not PackageNotFound), issues no
\* registry fetch and leaves the cache unchanged.
NoVersionIsInvalidArguments ==
    /\ [](noVersionCall =>
             /\ call.status = "rejected"
             /\ call.error.kind = "Error"
             /\ call.error.kind # "PackageNotFoundError"
             /\ call.error.cause = "Invalid arguments"
             /\ callFetches = 0
             /\ \A p \in DOMAIN tasks : tasks[p].pc # "fetching")
    /\ [][(call' # call /\ noVersionCall') =>
             /\ packageCache' = packageCache
             /\ fetchCount' = fetchCount]_vars

\* the call without a version was made on an analyzer whose cache is filled
NoVersionIsInvalidArgumentsWitness ==
    /\ noVersionCall
    /\ call.status = "rejected"
    /\ packageCache # EmptyMap
    /\ DOMAIN fetchCount # {}

\* the keys for which the step issues a registry request
fetchesIssued ==
    {k \in DOMAIN fetchCount' : k \notin DOMAIN fetchCount \/ fetchCount'[k] # fetchCount[k]}

\* a step inside a multi-package call
multiStep == call.kind = "multi" /\ callsLeft' = callsLeft

\* C21: the multi-package path analyses the packages strictly one at a time in
\* array order -- every promise, and so every registry fetch, belongs to the
\* build of the current package; the next package is started only when the
\* analysis of the current one has completed; and once a package has failed
\* no later package is ever started.
OneAtATime ==
    /\ []((call.kind = "multi" /\ call.idx > 0) =>
             /\ <<>> \in DOMAIN tasks
             /\ tasks[<<>>].name = call.packages[call.idx].name
             /\ tasks[<<>>].version = call.packages[call.idx].version)
    /\ [][multiStep =>
             /\ call'.idx \in {call.idx, call.idx + 1}
             /\ \A k \in fetchesIssued :
                   \E p \in DOMAIN tasks' :
                      /\ cacheKey(tasks'[p].name, tasks'[p].version) = k
                      /\ tasks'[p].pc = "fetching"
                      /\ p \notin DOMAIN tasks \/ call'.idx # call.idx
             /\ call'.idx = call.idx + 1 =>
                   /\ call.status = "pending"
                   /\ phase = "hoisting"
                   /\ work = <<>>
                   /\ \A p \in DOMAIN tasks : tasks[p].pc = "done"
                   /\ cacheKey(call.packages[call.idx].name,
                               call.packages[call.idx].version) \in DOMAIN individual'
             /\ call.status = "rejected" => call'.idx = call.idx]_vars

\* a package in the middle of the list failed, everything has settled, and the
\* package after it was never asked for
OneAtATimeWitness ==
    /\ call.kind = "multi"
    /\ call.status = "rejected"
    /\ call.idx > 1
    /\ call.idx < Len(call.packages)
    /\ quiescent
    /\ cacheKey(call.packages[call.idx + 1].name,
                call.packages[call.idx + 1].version) \notin DOMAIN fetchCount

\* a step of the call that is running or has just been rejected
sameCall == callsLeft' = callsLeft

\* C22: first failure wins -- analyze rejects at the first resolution that
\* fails, with the error of that resolution and while siblings may still be
\* in flight; a later failure does not replace the error, and what the
\* siblings produce afterwards enters no returned result.
FirstFailureWins ==
    /\ [][(sameCall /\ call.status = "pending" /\ call'.status = "rejected") =>
             /\ \A q \in DOMAIN tasks : tasks[q].pc # "failed"
             /\ \E p \in DOMAIN tasks :
                   /\ tasks[p].pc = "fetching"
                   /\ tasks'[p].pc = "failed"
                   /\ call'.error.name = tasks[p].name
                   /\ call'.error.version = tasks[p].version]_vars
    /\ [][(sameCall /\ call.status = "rejected") =>
             /\ call' = call
             /\ UNCHANGED <<phase, tree, hoistedTree, individual, individualOrder,
                            combinedFlat, firstResult, work>>]_vars

\* after the rejection a sibling that was still in flight failed as well, and
\* its error did not replace the first one
FirstFailureWinsWitness ==
    /\ call.status = "rejected"
    /\ \E p, q \in DOMAIN tasks :
          /\ tasks[p].pc = "failed"
          /\ tasks[q].pc = "failed"
          /\ ~IsPrefix(q, p)
          /\ ~IsPrefix(p, q)
          /\ call.error.name = tasks[p].name
          /\ call.error.name # tasks[q].name

\* the names of the model that contain a slash, with the slash percent-encoded
SlashEncoded == ("@scope/pkg" :> "@scope%2Fpkg")

encodedName(name) == IF name \in DOMAIN SlashEncoded THEN SlashEncoded[name] ELSE name

\* C23: for every package name passed to the registry client the request path
\* is the name with its slash percent-encoded: a scoped name @scope/pkg is
\* requested as {registry}/@scope%2Fpkg.
ScopedNameEncoded ==
    \A p \in DOMAIN tasks :
       tasks[p].pc = "fetching" =>
          requestUrl(tasks[p].name) = defaultRegistry \o "/" \o encodedName(tasks[p].name)

keyOfNode(tr, p) == nodeKeyOf(tr[p].name, tr[p].version)

\* ht is keyed as a placement of the nodes of tr
bucketsKeyedByParent(tr, ht) ==
    /\ \A n \in DOMAIN ht.root : ht.root[n].parent = NoParent
    /\ \A b \in DOMAIN ht.nested :
          /\ \E p \in DOMAIN tr : keyOfNode(tr, p) = b
          /\ \A n \in DOMAIN ht.nested[b] :
                /\ ht.nested[b][n].parent = b
                /\ \E p \in DOMAIN tr :
                      /\ p # <<>>
                      /\ tr[p].name = ht.nested[b][n].name
                      /\ tr[p].version = ht.nested[b][n].version
                      /\ keyOfNode(tr, SubSeq(p, 1, Len(p) - 1)) = b

\* C24: nested bucket keying -- every entry stored in nested[p] has parent = p,
\* where p is the key "name@version" of the immediate parent of the node in
\* the logical tree; every entry in root has no parent; and the key of every
\* nested bucket is the key of some node of the logical tree.
NestedKeyedByParent ==
    /\ bucketsKeyedByParent(tree, hoistedTree)
    /\ \A k \in DOMAIN individual :
          bucketsKeyedByParent(individual[k].dependencyTree, individual[k].hoistedTree)

\* a returned hoisted tree with a bucket of a node below the top of the tree
NestedKeyedByParentWitness ==
    /\ returned
    /\ \E b \in DOMAIN hoistedTree.nested :
          /\ b # keyOfNode(tree, <<>>)
          /\ \E n \in DOMAIN hoistedTree.nested[b] :
                /\ hoistedTree.nested[b][n].parent = b
                /\ b # nodeKeyOf(n, hoistedTree.nested[b][n].version)

\* the pair (name, version) has an entry in ht
placedIn(ht, name, version) ==
    \/ name \in DOMAIN ht.root /\ ht.root[name].version = version
    \/ \E b \in DOMAIN ht.nested :
          name \in DOMAIN ht.nested[b] /\ ht.nested[b][name].version = version

everyPairPlaced(tr, ht) ==
    \A p \in DOMAIN tr : placedIn(ht, tr[p].name, tr[p].version)

\* C25: no silent drop -- every (name, version) pair of a logical tree (the
\* virtual root of several requested versions of one name included) is in the
\* returned hoisted tree, as root[name] or as an entry of a nested bucket, with
\* that version; and a nested placement never overwrites an earlier one that
\* has another version.
NoSilentDrop ==
    /\ [](returned =>
             /\ everyPairPlaced(tree, hoistedTree)
             /\ \A k \in DOMAIN individual :
                   everyPairPlaced(individual[k].dependencyTree,
                                   individual[k].hoistedTree))
    /\ [][walkStep =>
             \A b \in DOMAIN hoistedTree.nested :
                \A n \in DOMAIN hoistedTree.nested[b] :
                   hoistedTree'.nested[b][n].version
                      = hoistedTree.nested[b][n].version]_vars

\* the promises whose resolution fails in the step
failingNow ==
    {p \in DOMAIN tasks : tasks[p].pc = "fetching" /\ p \in DOMAIN tasks'
                          /\ tasks'[p].pc = "failed"}

\* the promises the step creates, or creates anew at the same place
startedNow ==
    {p \in DOMAIN tasks' : tasks'[p].pc \in {"fetching", "cached"}
                           /\ (p \notin DOMAIN tasks \/ tasks[p] # tasks'[p])}

\* C26: a failed resolution never writes the cache -- packageCache gains an
\* entry for a key "name@descriptor" only when that resolution succeeded,
\* every cached value has a concrete version, and a resolution of a key that
\* is not cached (in particular after a failure for it) issues a new fetch.
CacheHoldsSuccessesOnly ==
    /\ [](\A k \in DOMAIN packageCache : valid(packageCache[k].version) # Null)
    /\ [][/\ \A k \in DOMAIN packageCache' \ DOMAIN packageCache :
                \E p \in DOMAIN tasks :
                   /\ cacheKey(tasks[p].name, tasks[p].version) = k
                   /\ tasks[p].pc = "fetching"
                   /\ tasks'[p].pc = "waiting"
          /\ \A k \in DOMAIN packageCache :
                k \in DOMAIN packageCache' /\ packageCache'[k] = packageCache[k]
          /\ failingNow # {} => packageCache' = packageCache
          /\ \A p \in startedNow :
                cacheKey(tasks'[p].name, tasks'[p].version) \notin DOMAIN packageCache'
                   => /\ tasks'[p].pc = "fetching"
                      /\ cacheKey(tasks'[p].name, tasks'[p].version) \in fetchesIssued
         ]_vars

\* the flat index a logical tree stands for: one key per pair, required by
\* the parent chain of each of its occurrences
flatOf(tr) ==
    [key \in {keyOfNode(tr, p) : p \in DOMAIN tr} |->
        {parentChain(tr, p) : p \in {q \in DOMAIN tr : keyOfNode(tr, q) = key}}]

flatIsExactly(tr, flat) ==
    /\ DOMAIN flat = DOMAIN flatOf(tr)
    /\ \A key \in DOMAIN flat : flat[key].requiredBy = flatOf(tr)[key]

\* tr is the closure the registry fixes for the request: every version is
\* the one the descriptor of its edge resolves to
closureOfRegistry(tr, name, descriptor) ==
    /\ tr[<<>>].name = name
    /\ tr[<<>>].version = matchVersion(Registry[name], descriptor)
    /\ onlyRegularEdges(tr)
    /\ \A p \in DOMAIN tr \ {<<>>} :
          LET declared == declaredOf(tr[SubSeq(p, 1, Len(p) - 1)])
          IN  \E i \in 1..Len(declared) :
                 /\ declared[i][1] = p[Len(p)]
                 /\ tr[p].name = declared[i][1]
                 /\ tr[p].version = matchVersion(Registry[tr[p].name], declared[i][2])

\* C27: interleaving independence of the flat index -- whatever the order in
\* which the concurrent child resolutions of a successful analyze run, the
\* logical tree is the closure the registry fixes for the request and
\* flatDependencies has exactly the keys of that tree and, per key, exactly
\* the parent chains of its occurrences: no registration is lost.
FlatIndexInterleavingFree ==
    /\ (returned /\ call.kind = "single") =>
          /\ closureOfRegistry(tree, call.name, call.version)
          /\ flatIsExactly(tree, flatDeps)
    /\ returned =>
          \A i \in 1..Len(call.packages) :
             LET k == cacheKey(call.packages[i].name, call.packages[i].version)
             IN  /\ closureOfRegistry(individual[k].dependencyTree,
                                      call.packages[i].name, call.packages[i].version)
                 /\ flatIsExactly(individual[k].dependencyTree,
                                  individual[k].flatDependencies)

\* a returned result whose children completed in another order than the
\* declared one and in which two promises registered the same key
FlatIndexInterleavingFreeWitness ==
    /\ returned
    /\ call.kind = "single"
    /\ tasks[<<>>].arrivals # tree[<<>>].dependencies
    /\ \E key \in DOMAIN flatDeps : Cardinality(flatDeps[key].requiredBy) > 1

\* the order the registry and the request fix for the children of a node:
\* the declared one, and for the virtual root the order of the requests
fixedOrder(tr, p) ==
    IF p = <<>> /\ tr[p].name = "virtual-root" THEN individualOrder
    ELSE declaredNames(tr[p])

\* the placement of the nodes of tr, depth first in the fixed order
RECURSIVE planFrom(_, _, _)
planFrom(ht, tr, stack) ==
    IF stack = <<>> THEN ht
    ELSE LET top == Head(stack)
             below == [i \in 1..Len(fixedOrder(tr, top.path)) |->
                         [path |-> Append(top.path, fixedOrder(tr, top.path)[i]),
                          parentPath |-> keyOfNode(tr, top.path),
                          isRoot |-> FALSE]]
         IN  planFrom(processNode(ht, tr, top.path, top.parentPath, top.isRoot),
                      tr, below \o Tail(stack))

planOf(tr) ==
    planFrom(EmptyHoistedTree, tr,
             << [path |-> <<>>, parentPath |-> "", isRoot |-> TRUE] >>)

\* C28: determinism of planning -- whatever the order in which the concurrent
\* fetches completed, the returned hoisted tree (root entries, versions and
\* nested buckets) is the one placement that the registry's declared order
\* fixes for the logical tree.
PlanningDeterministic ==
    returned =>
       /\ hoistedTree = planOf(tree)
       /\ \A k \in DOMAIN individual :
             individual[k].hoistedTree = planOf(individual[k].dependencyTree)

\* a returned plan with a nested bucket, of a tree whose children completed in
\* another order than the declared one
PlanningDeterministicWitness ==
    /\ returned
    /\ call.kind = "single"
    /\ tasks[<<>>].arrivals # tree[<<>>].dependencies
    /\ hoistedTree.nested # EmptyMap

(***************************************************************************)
(* Termination on an acyclic registry.                                     *)
(***************************************************************************)
\* the names some version of n declares as regular dependencies
dependsOn(n) ==
    IF n \notin DOMAIN Registry THEN {}
    ELSE UNION {{Registry[n].versions[v].dependencies[i][1] :
                    i \in 1..Len(Registry[n].versions[v].dependencies)} :
                v \in DOMAIN Registry[n].versions}

RECURSIVE reachable(_, _)
reachable(names, k) ==
    IF k = 0 THEN names
    ELSE reachable(names \cup UNION {dependsOn(n) : n \in names}, k - 1)

reachableFrom(names) == reachable(names, Cardinality(DOMAIN Registry))

\* the declared dependency graph below n has no cycle
acyclicFrom(n) ==
    \A m \in reachableFrom({n}) : m \notin reachableFrom(dependsOn(m))

LiveSingleRequests == {r \in SingleRequests : acyclicFrom(r[1])}

LivePackageLists ==
    {l \in PackageLists : \A i \in 1..Len(l) : acyclicFrom(l[i].name)}

\* the steps of the event loop: responses, aborts and continuations
run ==
    \/ \E p \in DOMAIN tasks :
          \E outcome \in {"ok", "non2xx", "badjson", "abort"} : FetchReturn(p, outcome)
    \/ \E p \in DOMAIN tasks : Resume(p)
    \/ \E p \in DOMAIN tasks : Complete(p)
    \/ BuildDone
    \/ HoistStep
    \/ SingleDone
    \/ NextPackage
    \/ Combine
    \/ MultipleDone

NextLive ==
    \/ \E r \in LiveSingleRequests : AnalyzeSingle(r[1], r[2])
    \/ \E n \in NoVersionNames : AnalyzeNoVersion(n)
    \/ \E ps \in LivePackageLists : AnalyzeMultiple(ps)
    \/ \E p \in DOMAIN tasks :
          \E outcome \in {"ok", "non2xx", "badjson", "abort"} : FetchReturn(p, outcome)
    \/ \E p \in DOMAIN tasks : Resume(p)
    \/ \E p \in DOMAIN tasks : Complete(p)
    \/ BuildDone
    \/ HoistStep
    \/ SingleDone
    \/ NextPackage
    \/ Combine
    \/ MultipleDone

\* every request is answered or aborted by AbortSignal.timeout (line 94), and
\* the event loop runs every continuation that is ready
SpecLive == Init /\ [][NextLive]_vars /\ WF_vars(run)

\* C29: liveness on acyclic input -- on a registry whose declared dependency
\* graph below the request is finite and acyclic, and with every fetch
\* eventually answered or aborted, every analyze call eventually completes:
\* it resolves with a result or rejects with an error.
CallCompletes ==
    (call.status = "pending") ~> (call.status \in {"resolved", "rejected"})

\* a call over a tree with dependencies ended because a request was aborted
CallCompletesWitness ==
    /\ call.status = "rejected"
    /\ call.error.cause = "AbortError"
    /\ \E p \in DOMAIN tasks : Len(p) > 0 /\ call.error.name = tasks[p].name
    /\ acyclicFrom(tasks[<<>>].name)

=============================================================================
